---- MODULE Spec2Model ----
(***************************************************************************)
(* Model of the cassandra-stress front end of cql-stress: the row          *)
(* generator (operation/row_generator.rs) and the self-validating read     *)
(* operation (operation/read.rs); and of the argument parsing of the       *)
(* scylla-bench front end (cql-stress-scylla-bench/args.rs).               *)
(*                                                                         *)
(* Spec     - a read run: the factories are built, every worker gets a     *)
(*            ReadOperation and the scheduler drives execute() on them.    *)
(* SpecGen  - two process instances over the same settings, one after the  *)
(*            other, that only call generate_row(), each over its own       *)
(*            factory and its own generators.                              *)
(* SpecArgs - a scylla-bench command line given to parse_scylla_bench_args *)
(*            and its consistency level to parse_consistency_level.        *)
(***************************************************************************)
EXTENDS Integers, Sequences, FiniteSets, Bags, TLC

(* ------------------------------ bounds -------------------------------- *)
\* number of concurrent workers of the read run
NumWorkers == 2
\* largest configured operation_count (n=...)
MaxOperationCount == 2
\* operation ids handed out when no operation_count is configured
MaxUnboundedOps == 1
\* largest n of the write run that filled the table before the read run
MaxWritten == 2
\* RowGenerators created in each generate_row-only run
GenWorkers == 2
\* generate_row calls made in each generate_row-only run
MaxCalls == 4

(* ------------------------- program constants -------------------------- *)
\* operation_count.unwrap_or(1000000)
DefaultSeqRangeEnd == 1000000
\* SeqDistribution::new(1, ...)
SeqRangeStart == 1
\* FixedDistribution::new(10) of the partition key generator
PkSize == 10
\* (0..5) column generators
ColumnCount == 5
\* FixedDistribution::new(34) of every column generator
ColumnSize == 34
\* recompute_seed(0, &key)
SeedBase == 0

(* ------------------------------ Option -------------------------------- *)
None == <<>>
Some(v) == <<v>>
unwrap_or(opt, default) == IF opt = None THEN default ELSE opt[1]

(* ------------------------------ integers ------------------------------ *)
\* a u64 is kept as four 16-bit limbs, the most significant first
LimbBase == 65536

\* the u64 of a small number
U64(n) == <<0, 0, n \div LimbBase, n % LimbBase>>

\* u64::MAX
U64_MAX == <<LimbBase - 1, LimbBase - 1, LimbBase - 1, LimbBase - 1>>

\* a >= b and a > b on u64
u64_ge(a, b) ==
  IF a[1] # b[1] THEN a[1] > b[1]
  ELSE IF a[2] # b[2] THEN a[2] > b[2]
  ELSE IF a[3] # b[3] THEN a[3] > b[3]
  ELSE a[4] >= b[4]

u64_gt(a, b) == a # b /\ u64_ge(a, b)

\* limbs to number, most significant first
Horner(u) == ((u[1] * LimbBase + u[2]) * LimbBase + u[3]) * LimbBase + u[4]

\* `u as i64`: the same 64 bits read as two's complement, so a value with
\* the top bit set comes out negative
as_i64(u) ==
  IF u[1] < LimbBase \div 2
    THEN Horner(u)
    ELSE -(1 + Horner([i \in 1..4 |-> (LimbBase - 1) - u[i]]))

(* --------------- java_generate: distributions and values -------------- *)
\* SeqDistribution::new(start, end): a malformed range is an error.
SeqDistribution_new(start, end) ==
  IF start <= end
    THEN [ok |-> TRUE, dist |-> [start |-> start, end |-> end, next |-> 0]]
    ELSE [ok |-> FALSE]

\* SeqDistribution::next_i64: one atomic step of the shared counter; the
\* value cycles through [start, end].
SeqDistribution_next_i64(dist) ==
  [value |-> dist.start + (dist.next % (dist.end - dist.start + 1)),
   dist  |-> [dist EXCEPT !.next = dist.next + 1]]

\* FixedDistribution::next_i64
FixedDistribution_next_i64(v) == v

\* modulus of the byte stream and of the derived seeds
StreamModulus == 65537
SeedModulus == 65536

\* byte-expansion of a seed into len bytes: a seeded counter-mode
\* linear-congruential stream
ExpandBytes(seed, len) ==
  [i \in 1..len |-> ((((seed % StreamModulus) + i) * 75 + 74) % StreamModulus) % 256]

\* lowercase hexadecimal digit, as its character code
HexDigit(n) == IF n < 10 THEN 48 + n ELSE 87 + n

\* lowercase hexadecimal text of a byte string
HexEncode(bytes) ==
  [i \in 1..(2 * Len(bytes)) |->
     LET b == bytes[(i + 1) \div 2]
     IN  IF i % 2 = 1 THEN HexDigit(b \div 16) ELSE HexDigit(b % 16)]

\* Generator::new(kind, GeneratorConfig::new(name, None, Some(size)))
Generator_new(kind, name, size) ==
  [kind |-> kind, name |-> name, size |-> size, seed |-> 0]

\* Generator::set_seed
Generator_set_seed(g, seed) == [g EXCEPT !.seed = seed]

\* Generator::generate: sample the length, expand the seed, encode by kind
Generator_generate(g) ==
  LET len == FixedDistribution_next_i64(g.size)
      bytes == ExpandBytes(g.seed, len)
  IN  IF g.kind = "HexBlob" THEN HexEncode(bytes) ELSE bytes

\* recompute_seed(seed, partition_key): a stable hash of the key's bytes
RECURSIVE recompute_seed_from(_, _, _)
recompute_seed_from(seed, key, i) ==
  IF i > Len(key) THEN seed
  ELSE recompute_seed_from((31 * seed + key[i]) % SeedModulus, key, i + 1)

recompute_seed(seed, key) == recompute_seed_from(seed % SeedModulus, key, 1)

(* --------------------------- row_generator.rs ------------------------- *)
\* RowGeneratorFactory::create with five column generators replaced by four
RowGeneratorFactory_create_four ==
  [pk_generator |-> Generator_new("HexBlob", <<"randomstrkey">>, PkSize),
   column_generators |->
     [n \in 1..(ColumnCount - 1) |->
        Generator_new("Blob", <<"randomstrC", n - 1>>, ColumnSize)]]

\* RowGeneratorFactory::create: the generators of a new RowGenerator (its
\* pk_seed_distribution is the factory's shared instance)
RowGeneratorFactory_create ==
  [pk_generator |-> Generator_new("HexBlob", <<"randomstrkey">>, PkSize),
   column_generators |->
     [n \in 1..ColumnCount |->
        Generator_new("Blob", <<"randomstrC", n - 1>>, ColumnSize)]]

\* generate_row with the key generated before the generator is reseeded
RowGenerator_generate_row_stale(self, dist) ==
  LET drawn == SeqDistribution_next_i64(dist)
      pk_seed == drawn.value
      key == Generator_generate(self.pk_generator)
      pk_generator == Generator_set_seed(self.pk_generator, pk_seed)
      columns_seed == recompute_seed(SeedBase, key)
      column_generators ==
        [n \in 1..Len(self.column_generators) |->
           Generator_set_seed(self.column_generators[n], columns_seed)]
      result ==
        <<key>> \o [n \in 1..Len(column_generators) |->
                      Generator_generate(column_generators[n])]
  IN  [row |-> result,
       pk_seed |-> pk_seed,
       self |-> [pk_generator |-> pk_generator,
                 column_generators |-> column_generators],
       dist |-> drawn.dist]

\* generate_row sampling the shared distribution twice
RowGenerator_generate_row_twice(self, dist) ==
  LET first == SeqDistribution_next_i64(dist)
      drawn == SeqDistribution_next_i64(first.dist)
      pk_seed == drawn.value
      pk_generator == Generator_set_seed(self.pk_generator, pk_seed)
      key == Generator_generate(pk_generator)
      columns_seed == recompute_seed(SeedBase, key)
      column_generators ==
        [n \in 1..Len(self.column_generators) |->
           Generator_set_seed(self.column_generators[n], columns_seed)]
      result ==
        <<key>> \o [n \in 1..Len(column_generators) |->
                      Generator_generate(column_generators[n])]
  IN  [row |-> result,
       pk_seed |-> pk_seed,
       self |-> [pk_generator |-> pk_generator,
                 column_generators |-> column_generators],
       dist |-> drawn.dist]

\* RowGenerator::generate_row: the row, the seed it drew, and the new state
\* of the generator and of the shared distribution
RowGenerator_generate_row(self, dist) ==
  LET drawn == SeqDistribution_next_i64(dist)
      pk_seed == drawn.value
      pk_generator == Generator_set_seed(self.pk_generator, pk_seed)
      key == Generator_generate(pk_generator)
      columns_seed == recompute_seed(SeedBase, key)
      column_generators ==
        [n \in 1..Len(self.column_generators) |->
           Generator_set_seed(self.column_generators[n], columns_seed)]
      result ==
        <<key>> \o [n \in 1..Len(column_generators) |->
                      Generator_generate(column_generators[n])]
  IN  [row |-> result,
       pk_seed |-> pk_seed,
       self |-> [pk_generator |-> pk_generator,
                 column_generators |-> column_generators],
       dist |-> drawn.dist]

(* ------------------------- operation/mod.rs --------------------------- *)
\* index of the first column in which the generated and the returned row
\* differ (0-based, as enumerate() counts)
RECURSIVE first_mismatch(_, _, _)
first_mismatch(generated_row, returned, i) ==
  IF i > Len(generated_row) THEN None
  ELSE IF generated_row[i] # returned[i] THEN Some(i - 1)
  ELSE first_mismatch(generated_row, returned, i + 1)

\* validate_row(&row, query_result): strict positional equality of the
\* generated row and the first returned row
validate_row(generated_row, query_result) ==
  IF query_result.rows = <<>>
    THEN [ok |-> FALSE, err |-> [reason |-> "missing row"]]
  ELSE LET first_row == query_result.rows[1] IN
    IF Len(first_row) # Len(generated_row)
      THEN [ok |-> FALSE,
            err |-> [reason |-> "row length",
                     column |-> IF Len(first_row) < Len(generated_row)
                                  THEN Len(first_row)
                                  ELSE Len(generated_row)]]
    ELSE LET m == first_mismatch(generated_row, first_row, 1) IN
      IF m # None
        THEN [ok |-> FALSE, err |-> [reason |-> "mismatch", column |-> m[1]]]
        ELSE [ok |-> TRUE]

(* ----------------------- the table and the driver --------------------- *)
\* the rows a write run of n operations inserts: one RowGenerator of a
\* factory built for operation_count = n, called n times
RECURSIVE WriteRun(_, _)
WriteRun(n, k) ==
  IF k = 0
    THEN [self |-> RowGeneratorFactory_create,
          dist |-> SeqDistribution_new(SeqRangeStart, n).dist,
          rows |-> {}]
    ELSE LET before == WriteRun(n, k - 1)
             g == RowGenerator_generate_row(before.self, before.dist)
         IN  [self |-> g.self, dist |-> g.dist, rows |-> before.rows \cup {g.row}]

WrittenRows(n) == IF n = 0 THEN {} ELSE WriteRun(n, n).rows

\* SELECT * FROM standard1 WHERE KEY=? on a table holding the given rows
Select(table, key) ==
  IF \E r \in table : r[1] = key
    THEN <<CHOOSE r \in table : r[1] = key>>
    ELSE <<>>

\* a row with one byte of one column changed
CorruptRow(r, c, b) ==
  [r EXCEPT ![c] = [r[c] EXCEPT ![b] = (r[c][b] + 1) % 256]]

\* everything Session::execute can return for a key: a driver error, the
\* stored row, or a result that differs from what is stored (no row, a
\* column less or more, or the last byte of one column changed)
DriverResults(table, key) ==
  LET stored == Select(table, key) IN
    {[ok |-> FALSE, fault |-> "error"],
     [ok |-> TRUE, fault |-> "none", rows |-> stored]}
    \cup
    (IF stored = <<>> THEN {}
     ELSE {[ok |-> TRUE, fault |-> "missing", rows |-> <<>>],
           [ok |-> TRUE, fault |-> "short",
            rows |-> <<SubSeq(stored[1], 1, Len(stored[1]) - 1)>>],
           [ok |-> TRUE, fault |-> "long",
            rows |-> <<Append(stored[1], <<>>)>>]}
          \cup
          {[ok |-> TRUE, fault |-> "corrupt",
            rows |-> <<CorruptRow(stored[1], c, Len(stored[1][c]))>>] :
             c \in 1..Len(stored[1])})

(* ------------------------------- state -------------------------------- *)
VARIABLES
  operation_count,       \* settings.command_params.basic_params.operation_count
  write_count,           \* n of the write run that filled the table
  database,              \* the rows of standard1
  phase,                 \* how far construction got
  pk_seed_distribution,  \* the SeqDistribution shared through the Arc
  max_operations,        \* ReadOperationFactory.max_operations
  operation,             \* per worker: its ReadOperation
  pc,                    \* per worker: its position in the run loop
  ctx,                   \* per worker: OperationContext.operation_id
  row,                   \* per worker: the row generated in this attempt
  pk_seed,               \* per worker: the seed drawn in this attempt
  bound,                 \* per worker: the key bound to the statement
  failed,                \* an earlier attempt of the run returned an error
  attempts,              \* per worker: attempts that executed a statement
  last,                  \* the attempt that has just returned, with its outcome
  next_operation_id,     \* the scheduler's operation counter
  generated,             \* rows generated in the run
  executed,              \* statements executed in the run
  seeds,                 \* bag of the seeds drawn in the run
  g_phase,               \* per generate_row-only run: unbuilt, running, ...
  g_dist,                \* per run: its shared SeqDistribution
  g_gens,                \* per run: the RowGenerators created, with their call counts
  g_calls,               \* per run: generate_row calls made
  g_rows,                \* per run: bag of the rows generated
  g_seeds,               \* per run: bag of the seeds drawn
  g_slots,               \* per run: the counter values the calls observed
  g_pairs,               \* per run: every (seed drawn, row returned) of its calls
  g_last,                \* per run: the last call (generator, seed, row)
  a_args,                \* scylla-bench: the flags of the command line
  a_result,              \* scylla-bench: what parse_scylla_bench_args returned
                         \* (config) and printed (output)
  a_level                \* scylla-bench: what parse_consistency_level returned

vars ==
  <<operation_count, write_count, database, phase, pk_seed_distribution,
    max_operations, operation, pc, ctx, row, pk_seed, bound, failed, attempts,
    last, next_operation_id, generated, executed, seeds,
    g_phase, g_dist, g_gens, g_calls, g_rows, g_seeds, g_slots, g_pairs, g_last,
    a_args, a_result, a_level>>

args_vars == <<a_args, a_result, a_level>>

gen_vars ==
  <<g_phase, g_dist, g_gens, g_calls, g_rows, g_seeds, g_slots, g_pairs, g_last>>
config_vars == <<operation_count, write_count, database>>
factory_vars == <<phase, max_operations>>
attempt_vars == <<row, pk_seed, bound>>
count_vars == <<attempts, generated, executed, seeds>>

Workers == 1..NumWorkers
Runs == 1..2
NoValue == [none |-> TRUE]

\* Result<ControlFlow<()>>
Ok(flow) == [ok |-> TRUE, flow |-> flow]
Err(e) == [ok |-> FALSE, err |-> e]

\* the settings of a run: no operation_count, n = 0..MaxOperationCount, or
\* an n above i64::MAX (u64::MAX and u64::MAX - 1)
OperationCounts ==
  {None} \cup {Some(U64(k)) : k \in 0..MaxOperationCount}
         \cup {Some(U64_MAX), Some([U64_MAX EXCEPT ![4] = LimbBase - 2])}

InitRead ==
  /\ phase = "start"
  /\ pk_seed_distribution = NoValue
  /\ max_operations = None
  /\ operation = [w \in Workers |-> NoValue]
  /\ pc = [w \in Workers |-> "uncreated"]
  /\ ctx = [w \in Workers |-> 0]
  /\ row = [w \in Workers |-> <<>>]
  /\ pk_seed = [w \in Workers |-> None]
  /\ bound = [w \in Workers |-> None]
  /\ failed = FALSE
  /\ attempts = [w \in Workers |-> 0]
  /\ last = NoValue
  /\ next_operation_id = 0
  /\ generated = 0
  /\ executed = 0
  /\ seeds = EmptyBag

InitRuns ==
  /\ g_phase = [r \in Runs |-> "unbuilt"]
  /\ g_dist = [r \in Runs |-> NoValue]
  /\ g_gens = [r \in Runs |-> <<>>]
  /\ g_calls = [r \in Runs |-> 0]
  /\ g_rows = [r \in Runs |-> EmptyBag]
  /\ g_seeds = [r \in Runs |-> EmptyBag]
  /\ g_slots = [r \in Runs |-> {}]
  /\ g_pairs = [r \in Runs |-> {}]
  /\ g_last = [r \in Runs |-> NoValue]

\* scylla-bench is not started
InitNoArgs ==
  /\ a_args = NoValue
  /\ a_result = NoValue
  /\ a_level = NoValue

Init ==
  /\ operation_count \in OperationCounts
  /\ write_count \in {1, MaxWritten}
  /\ database = WrittenRows(write_count)
  /\ InitRead
  /\ InitRuns
  /\ InitNoArgs

(* --------------------------- construction ----------------------------- *)
\* RowGeneratorFactory::new falling back to the default range when
\* SeqDistribution::new fails, instead of unwrap()
RowGeneratorFactory_new_lenient ==
  /\ phase = "start"
  /\ LET default_seq_range_end ==
           unwrap_or(operation_count, U64(DefaultSeqRangeEnd))
         made == SeqDistribution_new(SeqRangeStart,
                                     as_i64(default_seq_range_end))
     IN  /\ pk_seed_distribution' =
              (IF made.ok THEN made.dist
               ELSE SeqDistribution_new(SeqRangeStart, DefaultSeqRangeEnd).dist)
         /\ phase' = "row_factory"
  /\ last' = NoValue
  /\ UNCHANGED <<args_vars, gen_vars, config_vars, max_operations, operation, pc, ctx,
                 attempt_vars, failed, next_operation_id, count_vars>>

\* RowGeneratorFactory::new with the range counted from zero:
\* SeqDistribution::new(0, end - 1)
RowGeneratorFactory_new_from_zero ==
  /\ phase = "start"
  /\ LET default_seq_range_end ==
           unwrap_or(operation_count, U64(DefaultSeqRangeEnd))
         made == SeqDistribution_new(SeqRangeStart - 1,
                                     as_i64(default_seq_range_end) - 1)
     IN  IF made.ok
           THEN /\ pk_seed_distribution' = made.dist
                /\ phase' = "row_factory"
           ELSE /\ phase' = "aborted"
                /\ UNCHANGED pk_seed_distribution
  /\ last' = NoValue
  /\ UNCHANGED <<args_vars, gen_vars, config_vars, max_operations, operation,
                 pc, ctx, attempt_vars, failed, next_operation_id, count_vars>>

\* RowGeneratorFactory::new: SeqDistribution::new(1, end).unwrap()
RowGeneratorFactory_new ==
  /\ phase = "start"
  /\ LET default_seq_range_end ==
           unwrap_or(operation_count, U64(DefaultSeqRangeEnd))
         made == SeqDistribution_new(SeqRangeStart,
                                     as_i64(default_seq_range_end))
     IN  IF made.ok
           THEN /\ pk_seed_distribution' = made.dist
                /\ phase' = "row_factory"
           ELSE /\ phase' = "aborted"
                /\ UNCHANGED pk_seed_distribution
  /\ last' = NoValue
  /\ UNCHANGED <<args_vars, gen_vars, config_vars, max_operations, operation, pc, ctx,
                 attempt_vars, failed, next_operation_id, count_vars>>

\* ReadOperationFactory::new: the statement is prepared
ReadOperationFactory_new ==
  /\ phase = "row_factory"
  /\ phase' = "running"
  /\ max_operations' = operation_count
  /\ last' = NoValue
  /\ UNCHANGED <<args_vars, gen_vars, config_vars, pk_seed_distribution, operation, pc,
                 ctx, attempt_vars, failed, next_operation_id, count_vars>>

\* ReadOperationFactory::new: session.prepare fails
ReadOperationFactory_new_failed ==
  /\ phase = "row_factory"
  /\ phase' = "prepare_failed"
  /\ last' = NoValue
  /\ UNCHANGED <<args_vars, gen_vars, config_vars, pk_seed_distribution, max_operations,
                 operation, pc, ctx, attempt_vars, failed, next_operation_id,
                 count_vars>>

\* ReadOperationFactory::create, once per worker
ReadOperationFactory_create(w) ==
  /\ phase = "running"
  /\ pc[w] = "uncreated"
  /\ operation' = [operation EXCEPT ![w] =
                     [workload |-> RowGeneratorFactory_create,
                      max_operations |-> max_operations]]
  /\ pc' = [pc EXCEPT ![w] = "idle"]
  /\ last' = NoValue
  /\ UNCHANGED <<args_vars, gen_vars, config_vars, factory_vars, pk_seed_distribution,
                 ctx, attempt_vars, failed, next_operation_id, count_vars>>

(* ------------------------------ run loop ------------------------------ *)
\* the scheduler hands the next operation id to a worker
StartOperation(w) ==
  /\ pc[w] = "idle"
  /\ max_operations = None => next_operation_id < MaxUnboundedOps
  /\ ctx' = [ctx EXCEPT ![w] = next_operation_id]
  /\ next_operation_id' = next_operation_id + 1
  /\ pc' = [pc EXCEPT ![w] = "called"]
  /\ last' = NoValue
  /\ UNCHANGED <<args_vars, gen_vars, config_vars, factory_vars, pk_seed_distribution,
                 operation, attempt_vars, failed, count_vars>>

\* the scheduler takes the outcome of execute: a worker told to stop leaves
\* the loop, any other outcome, an error included, lets it go on
end_operation(result) ==
  IF result.ok /\ result.flow = "Break" THEN "stopped" ELSE "idle"

\* the bound check with > for >=
BoundReached_off_by_one(max, operation_id) ==
  max # None /\ u64_gt(U64(operation_id), max[1])

\* max_operations.is_some_and(|max_ops| ctx.operation_id >= max_ops)
BoundReached(max, operation_id) ==
  max # None /\ u64_ge(U64(operation_id), max[1])

\* let pk = &row[1]
PartitionKey_of_column(r) == r[2]

\* let pk = &row[0]
PartitionKey(r) == r[1]

\* execute with the row generated before the bound is checked
Execute_Break_after_generate(w) ==
  /\ pc[w] = "called"
  /\ BoundReached(operation[w].max_operations, ctx[w])
  /\ LET g == RowGenerator_generate_row(operation[w].workload,
                                        pk_seed_distribution)
     IN  /\ operation' = [operation EXCEPT ![w].workload = g.self]
         /\ pk_seed_distribution' = g.dist
  /\ last' = [operation_id |-> ctx[w],
              max_operations |-> operation[w].max_operations,
              row |-> <<>>, pk_seed |-> None, bound |-> None,
              response |-> NoValue, log |-> <<>>,
              statements |-> 0, validations |-> 0,
              failed_before |-> failed, nth |-> attempts[w],
              ret |-> Ok("Break")]
  /\ pc' = [pc EXCEPT ![w] = end_operation(Ok("Break"))]
  /\ ctx' = [ctx EXCEPT ![w] = 0]
  /\ UNCHANGED <<args_vars, gen_vars, config_vars, factory_vars, attempt_vars, failed,
                 next_operation_id, count_vars>>

\* execute: the bound is reached, return Ok(Break)
Execute_Break(w) ==
  /\ pc[w] = "called"
  /\ BoundReached(operation[w].max_operations, ctx[w])
  /\ last' = [operation_id |-> ctx[w],
              max_operations |-> operation[w].max_operations,
              row |-> <<>>, pk_seed |-> None, bound |-> None,
              response |-> NoValue, log |-> <<>>,
              statements |-> 0, validations |-> 0,
              failed_before |-> failed, nth |-> attempts[w],
              ret |-> Ok("Break")]
  /\ pc' = [pc EXCEPT ![w] = end_operation(Ok("Break"))]
  /\ ctx' = [ctx EXCEPT ![w] = 0]
  /\ UNCHANGED <<args_vars, gen_vars, config_vars, factory_vars, pk_seed_distribution,
                 operation, attempt_vars, failed, next_operation_id, count_vars>>

\* execute up to the await: generate the row and send the statement
Execute_Statement(w) ==
  /\ pc[w] = "called"
  /\ ~BoundReached(operation[w].max_operations, ctx[w])
  /\ LET g == RowGenerator_generate_row(operation[w].workload,
                                        pk_seed_distribution)
     IN  /\ operation' = [operation EXCEPT ![w].workload = g.self]
         /\ pk_seed_distribution' = g.dist
         /\ row' = [row EXCEPT ![w] = g.row]
         /\ pk_seed' = [pk_seed EXCEPT ![w] = Some(g.pk_seed)]
         /\ bound' = [bound EXCEPT ![w] = Some(PartitionKey(g.row))]
         /\ seeds' = seeds (+) SetToBag({g.pk_seed})
  /\ generated' = generated + 1
  /\ executed' = executed + 1
  /\ attempts' = [attempts EXCEPT ![w] = attempts[w] + 1]
  /\ pc' = [pc EXCEPT ![w] = "awaiting"]
  /\ last' = NoValue
  /\ UNCHANGED <<args_vars, gen_vars, config_vars, factory_vars, ctx, failed, next_operation_id>>

\* the rest of execute without the early return of `result?`
execute_after_await_no_return(r, pk, result) ==
  LET read_log ==
        IF ~result.ok
          THEN <<[msg |-> "read error", error |-> [reason |-> "driver error"],
                  partition_key |-> pk]>>
          ELSE <<>>
      validation_result ==
        validate_row(r, IF result.ok THEN result ELSE [rows |-> <<>>])
      validation_log ==
        IF ~validation_result.ok
          THEN <<[msg |-> "read validation error",
                  error |-> validation_result.err, partition_key |-> pk]>>
          ELSE <<>>
  IN  [log |-> read_log \o validation_log,
       validations |-> 1,
       ret |-> IF ~validation_result.ok
                 THEN Err([kind |-> "validation",
                           cause |-> validation_result.err,
                           context |-> Some(pk)])
                 ELSE Ok("Continue")]

\* the rest of execute with a validation failure reported as Ok(Break)
execute_after_await_break(r, pk, result) ==
  IF ~result.ok
    THEN [log |-> <<[msg |-> "read error",
                     error |-> [reason |-> "driver error"],
                     partition_key |-> pk]>>,
          validations |-> 0,
          ret |-> Err([kind |-> "driver", context |-> None])]
    ELSE LET validation_result == validate_row(r, result) IN
      IF ~validation_result.ok
        THEN [log |-> <<[msg |-> "read validation error",
                         error |-> validation_result.err,
                         partition_key |-> pk]>>,
              validations |-> 1,
              ret |-> Ok("Break")]
        ELSE [log |-> <<>>, validations |-> 1, ret |-> Ok("Continue")]

\* the rest of execute with the context message left out
execute_after_await_no_context(r, pk, result) ==
  IF ~result.ok
    THEN [log |-> <<[msg |-> "read error",
                     error |-> [reason |-> "driver error"],
                     partition_key |-> pk]>>,
          validations |-> 0,
          ret |-> Err([kind |-> "driver", context |-> None])]
    ELSE LET validation_result == validate_row(r, result) IN
      IF ~validation_result.ok
        THEN [log |-> <<[msg |-> "read validation error",
                         error |-> validation_result.err,
                         partition_key |-> pk]>>,
              validations |-> 1,
              ret |-> Err([kind |-> "validation",
                           cause |-> validation_result.err,
                           context |-> None])]
        ELSE [log |-> <<>>, validations |-> 1, ret |-> Ok("Continue")]

\* the rest of execute once Session::execute has returned: log a driver
\* error and return it, else validate, log a failure and return it with the
\* partition key as context, else Ok(Continue)
execute_after_await(r, pk, result) ==
  IF ~result.ok
    THEN [log |-> <<[msg |-> "read error",
                     error |-> [reason |-> "driver error"],
                     partition_key |-> pk]>>,
          validations |-> 0,
          ret |-> Err([kind |-> "driver", context |-> None])]
    ELSE LET validation_result == validate_row(r, result) IN
      IF ~validation_result.ok
        THEN [log |-> <<[msg |-> "read validation error",
                         error |-> validation_result.err,
                         partition_key |-> pk]>>,
              validations |-> 1,
              ret |-> Err([kind |-> "validation",
                           cause |-> validation_result.err,
                           context |-> Some(pk)])]
        ELSE [log |-> <<>>, validations |-> 1, ret |-> Ok("Continue")]

\* execute from the await on, with the generated row kept in a slot that the
\* operations share instead of in the attempt
Execute_Resume_shared_row(w) ==
  /\ pc[w] = "awaiting"
  /\ \E result \in DriverResults(database, bound[w][1]) :
       LET shared == row[CHOOSE v \in Workers : pc[v] = "awaiting"]
           out == execute_after_await(shared, PartitionKey(shared), result)
       IN  /\ last' = [operation_id |-> ctx[w],
                       max_operations |-> operation[w].max_operations,
                       row |-> shared, pk_seed |-> pk_seed[w],
                       bound |-> bound[w],
                       response |-> result, log |-> out.log,
                       statements |-> 1, validations |-> out.validations,
                       failed_before |-> failed, nth |-> attempts[w],
                       ret |-> out.ret]
           /\ failed' = (failed \/ ~out.ret.ok)
           /\ pc' = [pc EXCEPT ![w] = end_operation(out.ret)]
  /\ ctx' = [ctx EXCEPT ![w] = 0]
  /\ row' = [row EXCEPT ![w] = <<>>]
  /\ pk_seed' = [pk_seed EXCEPT ![w] = None]
  /\ bound' = [bound EXCEPT ![w] = None]
  /\ UNCHANGED <<args_vars, gen_vars, config_vars, factory_vars, pk_seed_distribution,
                 operation, next_operation_id, count_vars>>

\* execute from the await on: the driver answers and the attempt returns
Execute_Resume(w) ==
  /\ pc[w] = "awaiting"
  /\ \E result \in DriverResults(database, bound[w][1]) :
       LET out == execute_after_await(row[w], PartitionKey(row[w]), result)
       IN  /\ last' = [operation_id |-> ctx[w],
                       max_operations |-> operation[w].max_operations,
                       row |-> row[w], pk_seed |-> pk_seed[w],
                       bound |-> bound[w],
                       response |-> result, log |-> out.log,
                       statements |-> 1, validations |-> out.validations,
                       failed_before |-> failed, nth |-> attempts[w],
                       ret |-> out.ret]
           /\ failed' = (failed \/ ~out.ret.ok)
           /\ pc' = [pc EXCEPT ![w] = end_operation(out.ret)]
  /\ ctx' = [ctx EXCEPT ![w] = 0]
  /\ row' = [row EXCEPT ![w] = <<>>]
  /\ pk_seed' = [pk_seed EXCEPT ![w] = None]
  /\ bound' = [bound EXCEPT ![w] = None]
  /\ UNCHANGED <<args_vars, gen_vars, config_vars, factory_vars, pk_seed_distribution,
                 operation, next_operation_id, count_vars>>

Next ==
  \/ RowGeneratorFactory_new
  \/ ReadOperationFactory_new
  \/ ReadOperationFactory_new_failed
  \/ \E w \in Workers : ReadOperationFactory_create(w)
  \/ \E w \in Workers : StartOperation(w)
  \/ \E w \in Workers : Execute_Break(w)
  \/ \E w \in Workers : Execute_Statement(w)
  \/ \E w \in Workers : Execute_Resume(w)

Spec == Init /\ [][Next]_vars

(* -------------------- generate_row-only runs -------------------------- *)
\* two process instances over the same settings, one after the other; the
\* table is not used
InitGen ==
  /\ operation_count \in OperationCounts
  /\ write_count = 0
  /\ database = {}
  /\ InitRead
  /\ InitRuns
  /\ InitNoArgs

read_vars ==
  <<config_vars, factory_vars, pk_seed_distribution, operation, pc, ctx,
    attempt_vars, failed, last, next_operation_id, count_vars>>

\* RowGeneratorFactory::new of run r; the second instance starts when the
\* first is over
Gen_new(r) ==
  /\ g_phase[r] = "unbuilt"
  /\ \A q \in Runs : q < r => g_phase[q] \in {"exited", "aborted"}
  /\ LET default_seq_range_end ==
           unwrap_or(operation_count, U64(DefaultSeqRangeEnd))
         made == SeqDistribution_new(SeqRangeStart,
                                     as_i64(default_seq_range_end))
     IN  IF made.ok
           THEN /\ g_dist' = [g_dist EXCEPT ![r] = made.dist]
                /\ g_phase' = [g_phase EXCEPT ![r] = "running"]
           ELSE /\ g_phase' = [g_phase EXCEPT ![r] = "aborted"]
                /\ UNCHANGED g_dist
  /\ UNCHANGED <<args_vars, read_vars, g_gens, g_calls, g_rows, g_seeds, g_slots, g_pairs,
                 g_last>>

\* RowGeneratorFactory::create of run r: one more RowGenerator
Gen_create(r) ==
  /\ g_phase[r] = "running"
  /\ Len(g_gens[r]) < GenWorkers
  /\ g_gens' = [g_gens EXCEPT ![r] =
                  Append(g_gens[r], [self |-> RowGeneratorFactory_create,
                                     calls |-> 0])]
  /\ UNCHANGED <<args_vars, read_vars, g_phase, g_dist, g_calls, g_rows, g_seeds,
                 g_slots, g_pairs, g_last>>

\* generate_row with the generators handed out by reference, like the
\* distribution: a call reseeds the generators of every RowGenerator of run r
Gen_generate_row_shared_generators(r, i) ==
  /\ g_phase[r] = "running"
  /\ i \in 1..Len(g_gens[r])
  /\ g_calls[r] < MaxCalls
  /\ LET g == RowGenerator_generate_row(g_gens[r][i].self, g_dist[r])
     IN  /\ g_gens' = [g_gens EXCEPT ![r] =
                         [j \in 1..Len(g_gens[r]) |->
                            [self |-> g.self,
                             calls |-> g_gens[r][j].calls
                                         + (IF j = i THEN 1 ELSE 0)]]]
         /\ g_dist' = [g_dist EXCEPT ![r] = g.dist]
         /\ g_rows' = [g_rows EXCEPT ![r] = g_rows[r] (+) SetToBag({g.row})]
         /\ g_seeds' = [g_seeds EXCEPT ![r] = g_seeds[r] (+) SetToBag({g.pk_seed})]
         /\ g_slots' = [g_slots EXCEPT ![r] = g_slots[r] \cup {g.dist.next - 1}]
         /\ g_pairs' = [g_pairs EXCEPT ![r] =
                          g_pairs[r] \cup {<<g.pk_seed, g.row>>}]
         /\ g_last' = [g_last EXCEPT ![r] =
                         [generator |-> i, pk_seed |-> g.pk_seed, row |-> g.row,
                          columns |-> Len(g_gens[r][i].self.column_generators),
                          after |-> g.self, nth |-> g_gens[r][i].calls + 1]]
  /\ g_calls' = [g_calls EXCEPT ![r] = g_calls[r] + 1]
  /\ UNCHANGED <<args_vars, read_vars, g_phase>>

\* generate_row on the i-th RowGenerator of run r
Gen_generate_row(r, i) ==
  /\ g_phase[r] = "running"
  /\ i \in 1..Len(g_gens[r])
  /\ g_calls[r] < MaxCalls
  /\ LET g == RowGenerator_generate_row(g_gens[r][i].self, g_dist[r])
     IN  /\ g_gens' = [g_gens EXCEPT ![r][i] =
                         [self |-> g.self, calls |-> g_gens[r][i].calls + 1]]
         /\ g_dist' = [g_dist EXCEPT ![r] = g.dist]
         /\ g_rows' = [g_rows EXCEPT ![r] = g_rows[r] (+) SetToBag({g.row})]
         /\ g_seeds' = [g_seeds EXCEPT ![r] = g_seeds[r] (+) SetToBag({g.pk_seed})]
         /\ g_slots' = [g_slots EXCEPT ![r] = g_slots[r] \cup {g.dist.next - 1}]
         /\ g_pairs' = [g_pairs EXCEPT ![r] =
                          g_pairs[r] \cup {<<g.pk_seed, g.row>>}]
         /\ g_last' = [g_last EXCEPT ![r] =
                         [generator |-> i, pk_seed |-> g.pk_seed, row |-> g.row,
                          columns |-> Len(g_gens[r][i].self.column_generators),
                          after |-> g.self, nth |-> g_gens[r][i].calls + 1]]
  /\ g_calls' = [g_calls EXCEPT ![r] = g_calls[r] + 1]
  /\ UNCHANGED <<args_vars, read_vars, g_phase>>

\* the process of run r is over: its generators and its distribution are
\* gone, what it generated stays
Gen_exit(r) ==
  /\ g_phase[r] = "running"
  /\ g_phase' = [g_phase EXCEPT ![r] = "exited"]
  /\ g_gens' = [g_gens EXCEPT ![r] = <<>>]
  /\ g_dist' = [g_dist EXCEPT ![r] = NoValue]
  /\ g_last' = [g_last EXCEPT ![r] = NoValue]
  /\ UNCHANGED <<args_vars, read_vars, g_calls, g_rows, g_seeds, g_slots, g_pairs>>

NextGen ==
  \/ \E r \in Runs : Gen_new(r)
  \/ \E r \in Runs : Gen_create(r)
  \/ \E r \in Runs : \E i \in 1..GenWorkers : Gen_generate_row(r, i)
  \/ \E r \in Runs : Gen_exit(r)

SpecGen == InitGen /\ [][NextGen]_vars

(* ------------------ cql-stress-scylla-bench/args.rs ------------------- *)
\* Result<T>::Ok of a parse function
Parsed(v) == [ok |-> TRUE, value |-> v]

\* flag.string_var(name, default, ...).get(): the value given on the command
\* line, or the default
string_var(given, default) == unwrap_or(given, default)

\* parse_mode with the empty (default) mode taken as write
parse_mode_default_write(s) ==
  CASE s = "write" -> Parsed("Write")
    [] s = "read" -> Parsed("Read")
    [] s = "counter_update" -> Parsed("CounterUpdate")
    [] s = "counter_read" -> Parsed("CounterRead")
    [] s = "scan" -> Parsed("Scan")
    [] s = "" -> Parsed("Write")
    [] OTHER -> Err(<<"unknown mode", s>>)

\* parse_mode
parse_mode(s) ==
  CASE s = "write" -> Parsed("Write")
    [] s = "read" -> Parsed("Read")
    [] s = "counter_update" -> Parsed("CounterUpdate")
    [] s = "counter_read" -> Parsed("CounterRead")
    [] s = "scan" -> Parsed("Scan")
    [] s = "" -> Err(<<"mode needs to be specified">>)
    [] OTHER -> Err(<<"unknown mode", s>>)

\* parse_workload
parse_workload(s) ==
  CASE s = "sequential" -> Parsed("Sequential")
    [] s = "uniform" -> Parsed("Uniform")
    [] s = "timeseries" -> Parsed("Timeseries")
    [] s = "scan" -> Parsed("Scan")
    [] s = "" -> Err(<<"workload type needs to be specified">>)
    [] OTHER -> Err(<<"unknown workload type", s>>)

\* parse_consistency_level
parse_consistency_level(s) ==
  CASE s = "any" -> Parsed("All")
    [] s = "one" -> Parsed("One")
    [] s = "two" -> Parsed("Two")
    [] s = "three" -> Parsed("Three")
    [] s = "quorum" -> Parsed("Quorum")
    [] s = "all" -> Parsed("All")
    [] s = "local_quorum" -> Parsed("LocalQuorum")
    [] s = "each_quorum" -> Parsed("EachQuorum")
    [] s = "local_one" -> Parsed("LocalQuorum")
    [] OTHER -> Err(<<"Unknown consistency level", s>>)

\* the closure of parse_scylla_bench_args: the flags are parsed, then the
\* workload, the mode and the consistency level, each `?` returning the
\* first error; the flags not modelled as inputs keep their defaults
parse_result(flags) ==
  IF ~flags.well_formed THEN Err(<<"flag parse error">>)
  ELSE LET nodes == <<"127.0.0.1:9042">>
           workload == parse_workload(string_var(flags.workload, ""))
       IN
    IF ~workload.ok THEN workload
    ELSE LET mode == parse_mode(string_var(flags.mode, "")) IN
    IF ~mode.ok THEN mode
    ELSE LET consistency_level ==
               parse_consistency_level(
                 string_var(flags.consistency_level, "quorum"))
         IN
    IF ~consistency_level.ok THEN consistency_level
    ELSE Parsed([workload |-> workload.value,
                 consistency_level |-> consistency_level.value,
                 replication_factor |-> 1,
                 nodes |-> nodes,
                 partition_offset |-> 0,
                 keyspace_name |-> "scylla_bench",
                 table_name |-> "test",
                 mode |-> mode.value,
                 concurrency |-> 16,
                 maximum_rate |-> 0,
                 test_duration |-> 0,
                 partition_count |-> 10000,
                 clustering_row_count |-> 100,
                 clustering_row_size_dist |-> [kind |-> "Fixed", value |-> 4],
                 rows_per_request |-> 1,
                 provide_upper_bound |-> FALSE,
                 in_restriction |-> FALSE,
                 no_lower_bound |-> FALSE,
                 iterations |-> 1,
                 validate_data |-> FALSE])

\* parse_scylla_bench_args: Some(config), or the error and the help printed
\* and None
parse_scylla_bench_args(flags) ==
  LET result == parse_result(flags) IN
    IF result.ok
      THEN [config |-> Some(result.value), output |-> <<>>]
      ELSE [config |-> None,
            output |-> <<<<"Failed to parse flags", result.err>>,
                         <<"help">>>>]

\* the values tried for -workload, -mode and -consistency-level: not given,
\* every accepted name, the empty string and names that are not accepted
WorkloadArgs ==
  {None} \cup {Some(s) : s \in {"sequential", "uniform", "timeseries", "scan",
                                "", "write", "Uniform"}}

ModeArgs ==
  {None} \cup {Some(s) : s \in {"write", "read", "counter_update",
                                "counter_read", "scan", "", "sequential"}}

ConsistencyArgs ==
  {None} \cup {Some(s) : s \in {"any", "one", "two", "three", "quorum", "all",
                                "local_quorum", "each_quorum", "local_one",
                                "", "ANY", "serial"}}

\* a scylla-bench command line; the read run and the generate_row-only runs
\* are not started
InitArgs ==
  /\ operation_count = None
  /\ write_count = 0
  /\ database = {}
  /\ InitRead
  /\ InitRuns
  /\ a_args \in [workload : WorkloadArgs, mode : ModeArgs,
                 consistency_level : ConsistencyArgs, well_formed : BOOLEAN]
  /\ a_result = NoValue
  /\ a_level = NoValue

\* main calls parse_scylla_bench_args on the command line
Args_parse_scylla_bench_args ==
  /\ a_result = NoValue
  /\ a_result' = parse_scylla_bench_args(a_args)
  /\ UNCHANGED <<read_vars, gen_vars, a_args, a_level>>

\* parse_consistency_level applied to the text of -consistency-level
Args_parse_consistency_level ==
  /\ a_level = NoValue
  /\ a_level' =
       parse_consistency_level(string_var(a_args.consistency_level, "quorum"))
  /\ UNCHANGED <<read_vars, gen_vars, a_args, a_result>>

NextArgs ==
  \/ Args_parse_scylla_bench_args
  \/ Args_parse_consistency_level

SpecArgs == InitArgs /\ [][NextArgs]_vars

(* ------------------------------ helpers ------------------------------- *)
IsBreak(r) == r.ok /\ r.flow = "Break"
AllStopped == \A w \in Workers : pc[w] = "stopped"
\* an attempt has returned
Returned == last # NoValue
\* an attempt has returned after its statement was executed
Answered == last # NoValue /\ last.response # NoValue
\* the driver returned an error
DriverFailed == Answered /\ ~last.response.ok
\* the driver returned a result and validate_row rejected it
ValidationFailed ==
  Answered /\ last.response.ok /\ ~validate_row(last.row, last.response).ok

RECURSIVE SumOver(_, _)
SumOver(f, S) ==
  IF S = {} THEN 0
  ELSE LET x == CHOOSE y \in S : TRUE IN f[x] + SumOver(f, S \ {x})

\* the bytes of two values differ in exactly one position
OneByteDiffers(a, b) ==
  /\ Len(a) = Len(b)
  /\ Cardinality({i \in 1..Len(a) : a[i] # b[i]}) = 1

\* the returned row is the expected row with one byte of column c changed
CorruptedAt(expected, returned, c) ==
  /\ Len(returned) = Len(expected)
  /\ c \in 1..Len(expected)
  /\ \A j \in 1..Len(expected) : j # c => returned[j] = expected[j]
  /\ OneByteDiffers(expected[c], returned[c])

\* the first n values of start, start+1, ..., end, start, ... as a bag
ExpectedSeeds(start, end, n) ==
  LET len == end - start + 1
      count(x) == (n \div len) + (IF x - start < n % len THEN 1 ELSE 0)
      top == IF n < len THEN start + n - 1 ELSE end
  IN  [x \in start..top |-> count(x)]

HexChars == (48..57) \cup (97..102)

(* ------------------------------- claims ------------------------------- *)
\* C1: with max_operations = K, the attempts that generate a row and execute
\* a statement never exceed K in total over all workers, and once every
\* worker has been told to stop they are exactly K.
C1_BoundEnforcement ==
  operation_count # None =>
    LET K == operation_count[1] IN
      /\ u64_ge(K, U64(generated))
      /\ u64_ge(K, U64(executed))
      /\ SumOver(attempts, Workers) = executed
      /\ AllStopped => (U64(generated) = K /\ U64(executed) = K)

\* the run is over and the K = MaxOperationCount attempts were made by more
\* than one worker
C1_Witness ==
  /\ AllStopped
  /\ operation_count = Some(U64(MaxOperationCount))
  /\ executed = MaxOperationCount
  /\ \E w, v \in Workers : w # v /\ attempts[w] >= 1 /\ attempts[v] >= 1

\* C2: an execute call whose operation id is at or above the configured
\* maximum returns Ok(Break) and executes no statement; with no maximum
\* configured execute never returns Break.
C2_BoundCheck ==
  Returned =>
    /\ (last.max_operations # None
        /\ u64_ge(U64(last.operation_id), last.max_operations[1]))
         => (/\ last.ret = Ok("Break")
             /\ last.statements = 0
             /\ last.row = <<>>
             /\ last.response = NoValue)
    /\ last.max_operations = None => ~IsBreak(last.ret)

\* an id above the maximum was handed to execute
C2_Witness ==
  /\ Returned
  /\ last.max_operations = Some(U64(MaxOperationCount))
  /\ last.operation_id > MaxOperationCount
  /\ last.ret = Ok("Break")

\* C3: execute returns Break exactly when the bound is reached; an attempt
\* whose statement or validation failed returns an error, never Break; an
\* Ok outcome (Continue or Break) carries no error.
C3_StopFailOrthogonal ==
  Returned =>
    /\ IsBreak(last.ret) <=> (last.max_operations # None
                              /\ u64_ge(U64(last.operation_id),
                                        last.max_operations[1]))
    /\ (DriverFailed \/ ValidationFailed) => ~last.ret.ok
    /\ last.ret.ok => (/\ DOMAIN last.ret = {"ok", "flow"}
                       /\ last.ret.flow \in {"Continue", "Break"}
                       /\ ~DriverFailed
                       /\ ~ValidationFailed)

\* after an attempt of the run failed, an execute call is told to stop
C3_Witness ==
  /\ Returned
  /\ last.failed_before
  /\ IsBreak(last.ret)

\* C4: two runs over the same settings that made the same number of
\* generate_row calls produced the same multiset of rows, however the calls
\* were spread over their generators.
C4_CrossRunDeterminism ==
  g_calls[1] = g_calls[2] => g_rows[1] = g_rows[2]

\* both runs made MaxCalls calls, the second spread over several generators
C4_Witness ==
  /\ g_calls[1] = MaxCalls /\ g_calls[2] = MaxCalls
  /\ Len(g_gens[2]) >= 2
  /\ \A i \in 1..Len(g_gens[2]) : g_gens[2][i].calls >= 1

\* C5: the generators of one factory draw from one shared counter; every
\* generate_row call advances it by one, the calls observe distinct
\* counter values, and the seeds drawn by N calls are the first N values of
\* start..end repeated.
C5_SharedSequentialSeeds ==
  \A r \in Runs : g_phase[r] = "running" =>
    /\ g_dist[r].next = g_calls[r]
    /\ g_slots[r] = 0..(g_calls[r] - 1)
    /\ SumOver([i \in 1..Len(g_gens[r]) |-> g_gens[r][i].calls],
               1..Len(g_gens[r])) = g_calls[r]
    /\ g_calls[r] > 0 =>
         g_seeds[r] = ExpectedSeeds(g_dist[r].start, g_dist[r].end, g_calls[r])

\* the counter wrapped around while several generators were drawing from it
C5_Witness ==
  \E r \in Runs :
    /\ g_phase[r] = "running"
    /\ g_calls[r] > g_dist[r].end - g_dist[r].start + 1
    /\ g_dist[r].end > g_dist[r].start
    /\ Len(g_gens[r]) >= 2
    /\ \A i \in 1..Len(g_gens[r]) : g_gens[r][i].calls >= 1

\* C6: every generate_row call returns 1 + column_count values, the hex
\* text of the partition key first and the columns after it in declared
\* order: six values, a key of 10 hex-encoded bytes and five 34-byte blobs.
C6_RowShape ==
  \A r \in Runs : g_last[r] # NoValue =>
    LET call == g_last[r] IN
      /\ Len(call.row) = 1 + call.columns
      /\ Len(call.row) = 6
      /\ Len(call.row[1]) = 2 * 10
      /\ \A i \in 1..Len(call.row[1]) : call.row[1][i] \in HexChars
      /\ call.row[1] = HexEncode(ExpandBytes(call.pk_seed, 10))
      /\ \A n \in 2..6 :
           /\ Len(call.row[n]) = 34
           /\ \A i \in 1..34 : call.row[n][i] \in 0..255
           /\ call.row[n] = Generator_generate(call.after.column_generators[n - 1])
           /\ call.after.column_generators[n - 1].name = <<"randomstrC", n - 2>>

\* a generator that was used before returns a row
C6_Witness ==
  \E r \in Runs :
    /\ g_last[r] # NoValue
    /\ g_last[r].nth >= 2
    /\ Len(g_last[r].row) = 6

\* C7: when the table holds the rows a write run generated for the seeds
\* 1..n and the driver returns what is stored for the bound key, a read
\* attempt that drew a seed in 1..n validates and returns Ok(Continue).
C7_WrittenRowsValidate ==
  (/\ Answered
   /\ last.response.ok
   /\ last.response.rows = Select(database, last.bound[1])
   /\ last.pk_seed[1] \in SeqRangeStart..write_count)
  => last.ret = Ok("Continue")

\* a generator that already produced a row validates a second one, with a
\* read range other than the written range
C7_Witness ==
  /\ Answered
  /\ last.nth >= 2
  /\ last.response.ok
  /\ last.response.rows = Select(database, last.bound[1])
  /\ last.pk_seed[1] \in SeqRangeStart..write_count
  /\ last.ret = Ok("Continue")

\* C8: when one byte of one column of the returned row differs from the
\* generated row, the attempt returns a validation error that names the
\* index of that column and the partition key of the row.
C8_CorruptionReported ==
  \A c \in 1..(1 + ColumnCount) :
    (/\ Answered
     /\ last.response.ok
     /\ last.response.rows # <<>>
     /\ CorruptedAt(last.row, last.response.rows[1], c))
    => /\ ~last.ret.ok
       /\ last.ret.err.kind = "validation"
       /\ last.ret.err.cause.column = c - 1
       /\ last.ret.err.context = Some(last.row[1])

\* the last column of a row came back with a changed byte
C8_Witness ==
  /\ Answered
  /\ last.response.ok
  /\ last.response.rows # <<>>
  /\ CorruptedAt(last.row, last.response.rows[1], 1 + ColumnCount)
  /\ ~last.ret.ok
  /\ last.ret.err.cause.column = ColumnCount

\* C9: on a driver error the attempt logs exactly one entry, the read error
\* with the partition key, validates nothing, executed its statement once
\* and returns the driver error; on a validation failure it logs exactly one
\* entry, the validation error with the partition key.
C9_DriverErrorHandling ==
  /\ DriverFailed =>
       /\ Len(last.log) = 1
       /\ last.log[1].msg = "read error"
       /\ last.log[1].error = [reason |-> "driver error"]
       /\ last.log[1].partition_key = last.row[1]
       /\ last.validations = 0
       /\ last.statements = 1
       /\ ~last.ret.ok
       /\ last.ret.err.kind = "driver"
  /\ ValidationFailed =>
       /\ Len(last.log) = 1
       /\ last.log[1].msg = "read validation error"
       /\ last.log[1].partition_key = last.row[1]
       /\ last.validations = 1
       /\ last.statements = 1

\* the driver returned an error to an attempt
C9_Witness ==
  /\ DriverFailed
  /\ Len(last.log) = 1
  /\ last.validations = 0

\* C10: a failed attempt does not take its worker out of the run, and after
\* a failure every execute call with an id below the bound still generates
\* a row and executes a statement, so the run still ends with K attempts.
C10_RunContinuesAfterErrors ==
  /\ [][\A w \in Workers :
          /\ (/\ pc[w] = "awaiting"
              /\ pc'[w] # pc[w]
              /\ \/ ~last'.response.ok
                 \/ ~validate_row(last'.row, last'.response).ok)
               => pc'[w] = "idle"
          /\ (/\ failed
              /\ pc[w] = "called"
              /\ operation[w].max_operations # None
              /\ u64_gt(operation[w].max_operations[1], U64(ctx[w]))
              /\ pc'[w] # pc[w])
               => (/\ pc'[w] = "awaiting"
                   /\ row'[w] # <<>>
                   /\ generated' = generated + 1
                   /\ executed' = executed + 1)]_vars
  /\ []((AllStopped /\ operation_count # None /\ failed)
          => U64(executed) = operation_count[1])

\* the only operation that made attempts so far failed in one and is
\* executing a statement again
C10_Witness ==
  \E w \in Workers :
    /\ failed
    /\ pc[w] = "awaiting"
    /\ attempts[w] >= 2
    /\ \A v \in Workers : v # w => attempts[v] = 0
    /\ operation[w].max_operations # None

\* C11 as stated: every error that leaves execute carries the partition key
\* of the attempt's generated row, a driver error as well as a validation
\* error.
C11_EveryErrorEnriched ==
  (Returned /\ ~last.ret.ok) => last.ret.err.context = Some(last.row[1])

\* C11, amended: a validation error leaves execute wrapped in a context that
\* carries the partition key of the attempt's generated row; a driver error
\* leaves execute as the driver returned it, with no context, and the
\* partition key of the row appears only in the "read error" log entry.
C11_ErrorEnrichment ==
  (Returned /\ ~last.ret.ok) =>
    /\ last.row # <<>>
    /\ last.ret.err.kind \in {"driver", "validation"}
    /\ last.ret.err.kind = "validation" <=> ValidationFailed
    /\ last.ret.err.kind = "driver" <=> DriverFailed
    /\ ValidationFailed => last.ret.err.context = Some(last.row[1])
    /\ DriverFailed => /\ last.ret.err.context = None
                       /\ last.log[1].partition_key = last.row[1]

\* after an earlier attempt of the run failed, a row comes back with a
\* column missing and the attempt returns the validation error
C11_Witness ==
  /\ ValidationFailed
  /\ last.failed_before
  /\ last.response.fault = "short"
  /\ ~last.ret.ok
  /\ last.ret.err.context = Some(last.row[1])

\* C12: the row generate_row returns depends only on the seed drawn in that
\* call: two calls that drew the same seed returned the same row, whichever
\* generator of whichever run made them and whatever that generator drew
\* before, and two rows with the same partition key have the same columns.
C12_HistoryIndependence ==
  LET pairs == UNION {g_pairs[r] : r \in Runs} IN
    \A p, q \in pairs :
      /\ p[1] = q[1] => p[2] = q[2]
      /\ p[2][1] = q[2][1] => p[2] = q[2]

\* the last call of the second run drew a seed that another generator, with
\* another history, drew in the first run, and that it drew itself before
C12_Witness ==
  /\ g_phase[1] = "exited"
  /\ g_last[2] # NoValue
  /\ g_last[2].nth >= 2
  /\ Len(g_gens[2]) >= 2
  /\ \E i \in 1..Len(g_gens[2]) :
       /\ i # g_last[2].generator
       /\ g_gens[2][i].calls >= 1
       /\ g_gens[2][i].self.pk_generator.seed # g_last[2].pk_seed
  /\ g_calls[2] > g_dist[2].end - g_dist[2].start + 1
  /\ \E p \in g_pairs[1] : p[1] = g_last[2].pk_seed

\* C13: in every attempt the key bound to the statement is element 0 of the
\* row generated in that attempt; while the attempt is suspended in the
\* statement its row and its bound key stay as they are, whatever the other
\* workers generate; and the row validated when the statement returns is
\* that same row.
C13_PerAttemptConsistency ==
  [][\A w \in Workers :
       /\ (pc[w] = "called" /\ pc'[w] = "awaiting") =>
            /\ row'[w] # <<>>
            /\ bound'[w] = Some(row'[w][1])
            /\ seeds' = seeds (+) SetToBag({pk_seed'[w][1]})
            /\ row'[w][1] =
                 Generator_generate(operation'[w].workload.pk_generator)
       /\ (pc[w] = "awaiting" /\ pc'[w] = "awaiting") =>
            /\ row'[w] = row[w]
            /\ bound'[w] = bound[w]
            /\ pk_seed'[w] = pk_seed[w]
       /\ (pc[w] = "awaiting" /\ pc'[w] # "awaiting") =>
            /\ last'.row = row[w]
            /\ last'.bound = Some(row[w][1])
            /\ last'.response \in DriverResults(database, row[w][1])
            /\ last'.response.ok =>
                 (last'.ret.ok <=> validate_row(row[w], last'.response).ok)
    ]_vars

\* an attempt returns validated while another worker is suspended with a
\* row it generated after this attempt generated its own
C13_Witness ==
  /\ Answered
  /\ last.ret = Ok("Continue")
  /\ \E v \in Workers :
       /\ pc[v] = "awaiting"
       /\ pk_seed[v][1] > last.pk_seed[1]
       /\ row[v] # last.row

\* C14: a create call adds one RowGenerator with generators of its own and
\* touches neither the existing ones nor the distribution; a generate_row
\* call changes the seeds of the one RowGenerator it is made on and advances
\* the shared distribution by one, and leaves every other RowGenerator, of
\* its own run and of the other, as it was.
C14_WorkerLocalState ==
  [][\A r \in Runs :
       /\ g_calls'[r] = g_calls[r] + 1 =>
            /\ Len(g_gens'[r]) = Len(g_gens[r])
            /\ g_dist'[r].next = g_dist[r].next + 1
            /\ \E i \in 1..Len(g_gens[r]) :
                 /\ g_gens'[r][i].calls = g_gens[r][i].calls + 1
                 /\ g_gens'[r][i].self.pk_generator.seed = g_last'[r].pk_seed
                 /\ \A n \in 1..ColumnCount :
                      g_gens'[r][i].self.column_generators[n].seed =
                        recompute_seed(SeedBase, g_last'[r].row[1])
                 /\ \A j \in 1..Len(g_gens[r]) :
                      j # i => g_gens'[r][j] = g_gens[r][j]
            /\ \A q \in Runs : q # r => (g_gens'[q] = g_gens[q]
                                         /\ g_dist'[q] = g_dist[q])
       /\ Len(g_gens'[r]) = Len(g_gens[r]) + 1 =>
            /\ SubSeq(g_gens'[r], 1, Len(g_gens[r])) = g_gens[r]
            /\ g_gens'[r][Len(g_gens'[r])].calls = 0
            /\ g_gens'[r][Len(g_gens'[r])].self.pk_generator.seed = 0
            /\ Len(g_gens'[r][Len(g_gens'[r])].self.column_generators)
                 = ColumnCount
            /\ g_dist' = g_dist
    ]_vars

\* two RowGenerators of one factory were each called and hold different
\* seeds, those of the last row each of them generated
C14_Witness ==
  \E r \in Runs : \E i, j \in 1..Len(g_gens[r]) :
    /\ i # j
    /\ g_last[r] # NoValue
    /\ g_last[r].generator = i
    /\ g_gens[r][i].calls >= 2
    /\ g_gens[r][j].calls >= 1
    /\ g_gens[r][j].self.pk_generator.seed # g_gens[r][i].self.pk_generator.seed
    /\ g_gens[r][j].self.column_generators[1].seed
         # g_gens[r][i].self.column_generators[1].seed

\* i64::MAX as a u64
I64_MAX == <<(LimbBase \div 2) - 1, LimbBase - 1, LimbBase - 1, LimbBase - 1>>

\* the configured operation_count gives a malformed range 1..n: n = 0, or n
\* does not fit an i64
MalformedSeedRange ==
  /\ operation_count # None
  /\ \/ operation_count[1] = U64(0)
     \/ u64_gt(operation_count[1], I64_MAX)

\* C15: with an operation_count of 0, or one that does not fit an i64,
\* RowGeneratorFactory::new aborts: no distribution and no factory is ever
\* built, no operation is created, no operation id is handed out and no
\* attempt generates a row or executes a statement.
C15_ConfigErrorsFatal ==
  MalformedSeedRange =>
    /\ phase \in {"start", "aborted"}
    /\ pk_seed_distribution = NoValue
    /\ max_operations = None
    /\ \A w \in Workers : pc[w] = "uncreated" /\ operation[w] = NoValue
    /\ next_operation_id = 0
    /\ generated = 0
    /\ executed = 0
    /\ seeds = EmptyBag
    /\ last = NoValue

\* construction aborted on an operation_count above i64::MAX
C15_Witness ==
  /\ phase = "aborted"
  /\ operation_count # None
  /\ u64_gt(operation_count[1], I64_MAX)
  /\ as_i64(operation_count[1]) < SeqRangeStart

\* C16: with operation_count = K >= 1 the factory's distribution is the
\* sequence 1..K: every seed drawn in the run lies in 1..K and is drawn
\* once, and when every worker has been told to stop each seed of 1..K has
\* been drawn exactly once; with no operation_count the range is 1..1000000.
C16_DefaultKeyCoverage ==
  /\ pk_seed_distribution # NoValue =>
       /\ pk_seed_distribution.start = 1
       /\ operation_count = None => pk_seed_distribution.end = 1000000
       /\ operation_count # None =>
            U64(pk_seed_distribution.end) = operation_count[1]
  /\ operation_count = None =>
       \A x \in BagToSet(seeds) : x \in 1..1000000
  /\ operation_count # None =>
       LET K == as_i64(operation_count[1]) IN
         /\ \A x \in BagToSet(seeds) : x \in 1..K /\ CopiesIn(x, seeds) = 1
         /\ Cardinality(BagToSet(seeds)) = executed
         /\ AllStopped => BagToSet(seeds) = 1..K

\* a run of K = MaxOperationCount attempts is over, every worker drew a
\* seed and one of the attempts failed
C16_Witness ==
  /\ AllStopped
  /\ failed
  /\ operation_count # None
  /\ as_i64(operation_count[1]) = MaxOperationCount
  /\ BagToSet(seeds) = 1..MaxOperationCount
  /\ \A w \in Workers : attempts[w] >= 1

\* C17: an execute call that returns Break generates no row, draws nothing
\* from the shared distribution, logs nothing and leaves the RowGenerator of
\* every operation and the shared counter as they were; the counter is
\* advanced by the attempts that generate a row and by nothing else, so the
\* seeds drawn are the first values of the sequence however many workers
\* have been told to stop in between.
C17_StoppedAttemptNoEffect ==
  /\ [][\A w \in Workers :
          (pc[w] = "called" /\ pc'[w] = "stopped") =>
            /\ IsBreak(last'.ret)
            /\ last'.row = <<>>
            /\ last'.pk_seed = None
            /\ last'.log = <<>>
            /\ last'.statements = 0
            /\ operation' = operation
            /\ pk_seed_distribution' = pk_seed_distribution
            /\ seeds' = seeds
            /\ generated' = generated
            /\ executed' = executed
            /\ row' = row
            /\ bound' = bound]_vars
  /\ [](pk_seed_distribution # NoValue =>
          /\ pk_seed_distribution.next = generated
          /\ generated > 0 =>
               seeds = ExpectedSeeds(pk_seed_distribution.start,
                                     pk_seed_distribution.end, generated))

\* a worker is told to stop while another, called with an id below the
\* bound, has still to draw its seed
C17_Witness ==
  /\ Returned
  /\ IsBreak(last.ret)
  /\ generated >= 1
  /\ \E v \in Workers :
       /\ pc[v] = "called"
       /\ ~BoundReached(operation[v].max_operations, ctx[v])

\* the consistency level each accepted name stands for
ConsistencyNamed ==
  [any |-> "Any", one |-> "One", two |-> "Two", three |-> "Three",
   quorum |-> "Quorum", all |-> "All", local_quorum |-> "LocalQuorum",
   each_quorum |-> "EachQuorum", local_one |-> "LocalOne"]

\* the text parse_consistency_level is given
ConsistencyText == string_var(a_args.consistency_level, "quorum")

\* C18: parse_consistency_level maps each of the nine accepted names to the
\* consistency level of that name, and returns an error for every other
\* string.
C18_ConsistencyLevelOfName ==
  a_level # NoValue =>
    IF ConsistencyText \in DOMAIN ConsistencyNamed
      THEN a_level = Parsed(ConsistencyNamed[ConsistencyText])
      ELSE ~a_level.ok

\* the names the flags accept
WorkloadNames == {"sequential", "uniform", "timeseries", "scan"}
ModeNames == {"write", "read", "counter_update", "counter_read", "scan"}

\* the fields of ScyllaBenchArgs
ConfigFields ==
  {"workload", "consistency_level", "replication_factor", "nodes",
   "partition_offset", "keyspace_name", "table_name", "mode", "concurrency",
   "maximum_rate", "test_duration", "partition_count", "clustering_row_count",
   "clustering_row_size_dist", "rows_per_request", "provide_upper_bound",
   "in_restriction", "no_lower_bound", "iterations", "validate_data"}

\* C19: parse_scylla_bench_args returns a configuration only if the workload
\* and the mode are accepted names and the consistency level is an accepted
\* name; when the workload or the mode is empty or unknown, or the
\* consistency level is unknown, it returns None, and a configuration it
\* returns has every field filled.
C19_ArgumentValidation ==
  a_result # NoValue =>
    LET workload == string_var(a_args.workload, "")
        mode == string_var(a_args.mode, "")
        accepted == /\ workload \in WorkloadNames
                    /\ mode \in ModeNames
                    /\ ConsistencyText \in DOMAIN ConsistencyNamed
    IN  /\ a_result.config # None => accepted
        /\ ~accepted => (a_result.config = None /\ a_result.output # <<>>)
        /\ a_result.config # None =>
             /\ DOMAIN a_result.config[1] = ConfigFields
             /\ a_result.config[1].workload
                  \in {"Sequential", "Uniform", "Timeseries", "Scan"}
             /\ a_result.config[1].mode
                  \in {"Write", "Read", "CounterUpdate", "CounterRead", "Scan"}
             /\ a_result.output = <<>>

\* a command line that names a workload and a mode and leaves the
\* consistency level to its default gives a configuration
C19_Witness ==
  /\ a_result # NoValue
  /\ a_result.config # None
  /\ a_args.consistency_level = None
  /\ a_args.workload = Some("timeseries")
  /\ a_args.mode = Some("counter_read")
  /\ a_result.config[1].consistency_level = "Quorum"

====
